---- MODULE Spec2Model ----
(***************************************************************************)
(* Movie ticket notifier (main_with_tracking.py, main.py).                 *)
(*                                                                         *)
(* Python strings are modelled as sequences of one-character strings, so   *)
(* that split, strip, title-casing, slicing, sorting and concatenation are *)
(* computed the way the code computes them.                                *)
(***************************************************************************)
EXTENDS Integers, Sequences, FiniteSets, TLC

(***************************************************************************)
(* Bounds of the model.                                                    *)
(***************************************************************************)
\* number of process runs (cron invocations) explored
MaxRuns == 2

\* Events in the embedded data of a page, ChildEvents per Event, ShowTimes per ChildEvent
MaxEvents == 2

MaxChildEvents == 1

MaxShowTimes == 2

\* backup files already on disk before a load
MaxBackups == 2

(***************************************************************************)
(* Characters.                                                             *)
(***************************************************************************)
LowerCase == <<"a", "b", "c", "d", "e", "f", "g", "h", "i", "j", "k", "l", "m", "n", "o", "p", "q", "r", "s", "t", "u", "v", "w", "x", "y", "z">>

UpperCase == <<"A", "B", "C", "D", "E", "F", "G", "H", "I", "J", "K", "L", "M", "N", "O", "P", "Q", "R", "S", "T", "U", "V", "W", "X", "Y", "Z">>

\* the characters of the model in ascending code point order (str comparison)
CodePoints == <<" ", ",", "-", ".", "/", "0", "1", "2", "3", "4", "5", "6", "7", "8", "9", ":">> \o UpperCase \o <<"_">> \o LowerCase

IndexIn(c, s) == IF \E i \in 1..Len(s) : s[i] = c THEN CHOOSE i \in 1..Len(s) : s[i] = c ELSE 0

IsLetter(c) == IndexIn(c, LowerCase) > 0 \/ IndexIn(c, UpperCase) > 0

\* str.lower() on one character
LowerChar(c) == IF IndexIn(c, UpperCase) > 0 THEN LowerCase[IndexIn(c, UpperCase)] ELSE c

\* str.upper() on one character
UpperChar(c) == IF IndexIn(c, LowerCase) > 0 THEN UpperCase[IndexIn(c, LowerCase)] ELSE c

\* str.lower()
Lower(s) == [i \in 1..Len(s) |-> LowerChar(s[i])]

\* str.title(): a letter that follows a non-letter is upper-cased, any other letter lower-cased
Title(s) == [i \in 1..Len(s) |-> IF i = 1 \/ ~IsLetter(s[i - 1]) THEN UpperChar(s[i]) ELSE LowerChar(s[i])]

\* str.replace(old, new) for one-character old and new
Replace(s, old, new) == [i \in 1..Len(s) |-> IF s[i] = old THEN new ELSE s[i]]

\* s[lo:hi] (0-based, end exclusive, clamped to the string as Python does)
Slice(s, lo, hi) == IF hi > lo /\ lo < Len(s) THEN SubSeq(s, lo + 1, IF hi < Len(s) THEN hi ELSE Len(s)) ELSE <<>>

\* sub in s
Contains(s, sub) == \E i \in 0..(Len(s) - Len(sub)) : SubSeq(s, i + 1, i + Len(sub)) = sub

\* str.split(sep) for a one-character separator: always at least one part
SepPositions(s, sep) == {i \in 1..Len(s) : s[i] = sep}

\* position of the k-th separator; 0 before the first part, Len(s) + 1 after the last
SepAt(s, sep, k) ==
    IF k = 0 THEN 0
    ELSE IF k > Cardinality(SepPositions(s, sep)) THEN Len(s) + 1
    ELSE CHOOSE i \in SepPositions(s, sep) : Cardinality({j \in SepPositions(s, sep) : j <= i}) = k

Split(s, sep) == [k \in 1..(Cardinality(SepPositions(s, sep)) + 1) |-> SubSeq(s, SepAt(s, sep, k - 1) + 1, SepAt(s, sep, k) - 1)]

\* str.strip(): leading and trailing whitespace removed
RECURSIVE LStrip(_)
LStrip(s) == IF s # <<>> /\ Head(s) = " " THEN LStrip(Tail(s)) ELSE s

RECURSIVE RStrip(_)
RStrip(s) == IF s # <<>> /\ s[Len(s)] = " " THEN RStrip(SubSeq(s, 1, Len(s) - 1)) ELSE s

Strip(s) == RStrip(LStrip(s))

\* str comparison s <= t: lexicographic by code point
RECURSIVE StrLeq(_, _)
StrLeq(s, t) ==
    IF s = <<>> THEN TRUE
    ELSE IF t = <<>> THEN FALSE
    ELSE IF Head(s) = Head(t) THEN StrLeq(Tail(s), Tail(t))
    ELSE IndexIn(Head(s), CodePoints) < IndexIn(Head(t), CodePoints)

\* sorted(list of str): stable insertion sort
RECURSIVE InsertSorted(_, _)
InsertSorted(x, l) ==
    IF l = <<>> THEN <<x>>
    ELSE IF StrLeq(Head(l), x) THEN <<Head(l)>> \o InsertSorted(x, Tail(l))
    ELSE <<x>> \o l

RECURSIVE Sorted(_)
Sorted(l) == IF l = <<>> THEN <<>> ELSE InsertSorted(l[Len(l)], Sorted(SubSeq(l, 1, Len(l) - 1)))

(***************************************************************************)
(* Configuration (module-level constants of the scripts).                  *)
(***************************************************************************)
UrlSudarshan0809 == "https://in.bookmyshow.com/cinemas/hyderabad/sudarshan-35mm-4k-laser-dolby-atmos-rtc-x-roads/buytickets/SUDA/20250809"

UrlPrasads0809 == "https://in.bookmyshow.com/cinemas/hyderabad/prasads-multiplex-hyderabad/buytickets/PRHN/20250809"

UrlAmb0730 == "https://in.bookmyshow.com/cinemas/hyderabad/amb-cinemas-gachibowli/buytickets/AMBH/20250730"

\* list(THEATRE_EMAIL_MAPPING.keys()): the configured theatre pages, in order.
\* The keys of the mapping are configuration, edited from release to release; the
\* pages are taken from the lists the two scripts carry (main.py's THEATRE_URLS,
\* main_with_tracking.py's THEATRE_EMAIL_MAPPING).
THEATRE_URLS == <<UrlSudarshan0809, UrlPrasads0809, UrlAmb0730>>

UrlSet == {THEATRE_URLS[i] : i \in 1..Len(THEATRE_URLS)}

MOVIE_NAME == <<"K", "i", "n", "g", "d", "o", "m">>

\* values the environment can give a theatre's recipient variable
RecipientStrings == {"", " ,", "b", "a,b", "b, a", "a,a,b"}

\* the characters of the strings above (TLC cannot take a string apart)
UrlPrefixChars == <<"h", "t", "t", "p", "s", ":", "/", "/", "i", "n", ".", "b", "o", "o", "k", "m", "y", "s", "h", "o", "w", ".", "c", "o", "m", "/", "c", "i", "n", "e", "m", "a", "s", "/", "h", "y", "d", "e", "r", "a", "b", "a", "d", "/">>

Chars(s) ==
    CASE s = UrlSudarshan0809 -> UrlPrefixChars \o <<"s", "u", "d", "a", "r", "s", "h", "a", "n", "-", "3", "5", "m", "m", "-", "4", "k", "-", "l", "a", "s", "e", "r", "-", "d", "o", "l", "b", "y", "-", "a", "t", "m", "o", "s", "-", "r", "t", "c", "-", "x", "-", "r", "o", "a", "d", "s", "/", "b", "u", "y", "t", "i", "c", "k", "e", "t", "s", "/", "S", "U", "D", "A", "/", "2", "0", "2", "5", "0", "8", "0", "9">>
      [] s = UrlPrasads0809 -> UrlPrefixChars \o <<"p", "r", "a", "s", "a", "d", "s", "-", "m", "u", "l", "t", "i", "p", "l", "e", "x", "-", "h", "y", "d", "e", "r", "a", "b", "a", "d", "/", "b", "u", "y", "t", "i", "c", "k", "e", "t", "s", "/", "P", "R", "H", "N", "/", "2", "0", "2", "5", "0", "8", "0", "9">>
      [] s = UrlAmb0730 -> UrlPrefixChars \o <<"a", "m", "b", "-", "c", "i", "n", "e", "m", "a", "s", "-", "g", "a", "c", "h", "i", "b", "o", "w", "l", "i", "/", "b", "u", "y", "t", "i", "c", "k", "e", "t", "s", "/", "A", "M", "B", "H", "/", "2", "0", "2", "5", "0", "7", "3", "0">>
      [] s = "" -> <<>>
      [] s = " ," -> <<" ", ",">>
      [] s = "b" -> <<"b">>
      [] s = "a,b" -> <<"a", ",", "b">>
      [] s = "b, a" -> <<"b", ",", " ", "a">>
      [] s = "a,a,b" -> <<"a", ",", "a", ",", "b">>
      [] s = "recipient@example.com" -> <<"r", "e", "c", "i", "p", "i", "e", "n", "t", "@", "e", "x", "a", "m", "p", "l", "e", ".", "c", "o", "m">>

\* values the environment can give RECIPIENT_EMAILS (main.py)
RecipientEmailsDefault == "recipient@example.com"

RecipientEnvValues == {RecipientEmailsDefault, "", "a,b"}

SenderEmailDefault == "your_email@gmail.com"

SenderPasswordDefault == "your_email_password"

\* values the environment can give SENDER_EMAIL and SENDER_PASSWORD
SenderEmails == {SenderEmailDefault, "", "notifier@gmail.com"}

SenderPasswords == {SenderPasswordDefault, "", "app-password"}

(***************************************************************************)
(* extract_theatre_info and the notification key.                          *)
(***************************************************************************)
UnknownInfo == [theatre |-> <<"U", "n", "k", "n", "o", "w", "n", " ", "T", "h", "e", "a", "t", "r", "e">>, date |-> <<"U", "n", "k", "n", "o", "w", "n", " ", "D", "a", "t", "e">>]

TheatreAlias(theatre_part) ==
    IF Contains(Lower(theatre_part), <<"p", "r", "a", "s", "a", "d", "s">>)
    THEN <<"P", "r", "a", "s", "a", "d", "s", " ", "M", "u", "l", "t", "i", "p", "l", "e", "x">>
    ELSE IF Contains(Lower(theatre_part), <<"s", "u", "d", "a", "r", "s", "h", "a", "n">>)
    THEN <<"S", "u", "d", "a", "r", "s", "h", "a", "n", " ", "3", "5", "m", "m">>
    ELSE Title(Replace(theatre_part, "-", " "))

\* parts[4] raises IndexError when the URL has fewer than five parts; nothing else raises
ExtractTheatreInfoOfChars(url_chars) ==
    LET parts == Split(url_chars, "/")
    IN  IF Len(parts) < 5 THEN UnknownInfo
        ELSE LET theatre_part == parts[5]
                 date_part == parts[Len(parts)]
             IN  [theatre |-> TheatreAlias(theatre_part),
                  date |-> Slice(date_part, 6, 8) \o <<"/">> \o Slice(date_part, 4, 6) \o <<"/">> \o Slice(date_part, 0, 4)]

ExtractTheatreInfo(url) == ExtractTheatreInfoOfChars(Chars(url))

\* the function on the configured URLs, computed once
TheatreInfoTable == [url \in UrlSet |-> ExtractTheatreInfo(url)]

extract_theatre_info(url) == TheatreInfoTable[url]

\* f"{theatre_name}_{date}_{MOVIE_NAME}"; recipient_emails is not used
create_notification_key(theatre_url, recipient_emails) ==
    LET info == extract_theatre_info(theatre_url)
    IN  info.theatre \o <<"_">> \o info.date \o <<"_">> \o MOVIE_NAME

\* [email.strip() for email in recipient_emails.split(',') if email.strip()]
SplitEmails(recipient_emails) ==
    LET parts == Split(Chars(recipient_emails), ",")
        stripped == [i \in 1..Len(parts) |-> Strip(parts[i])]
    IN  SelectSeq(stripped, LAMBDA e : e # <<>>)

\* the list on the recipient strings of the model, computed once
EmailsTable == [s \in RecipientStrings |-> SplitEmails(s)]

CleanEmails(recipient_emails) == EmailsTable[recipient_emails]

(***************************************************************************)
(* The embedded data of a booking page and its markup.                     *)
(***************************************************************************)
\* Python's None: a JSON null, and dict.get on a missing key
None == "None"

SeqsUpTo(S, n) == UNION {[1..k -> S] : k \in 0..n}

ShowDateCodes == {"20250809", "20250730"}

AttributeValues == {None, "PCX SCREEN", "pcx screen"}

EventTitles == {"KINGDOM (Telugu)", "Coolie"}

EventNames == {"Kingdom 2D", "Coolie"}

ShowTimeRecords == [ShowDateCode : ShowDateCodes, Attributes : AttributeValues]

ChildEventRecords == [EventName : EventNames, ShowTimes : SeqsUpTo(ShowTimeRecords, MaxShowTimes)]

EventRecords == [EventTitle : EventTitles, ChildEvents : SeqsUpTo(ChildEventRecords, MaxChildEvents)]

EventLists == SeqsUpTo(EventRecords, MaxEvents)

\* Markup is a sequence of tokens. EventsBlock stands for the comma-separated JSON
\* objects of the page's Event list; the other tokens are text as it stands.
EventKey == "\"Event\":"

DateKey == "\"Date\""

EventsBlock == "{...}"

\* the characters of the text tokens, titles, names and date codes
MarkupChars(s) ==
    CASE s = "\"Event\":" -> <<"\"", "E", "v", "e", "n", "t", "\"", ":">>
      [] s = "\"Date\"" -> <<"\"", "D", "a", "t", "e", "\"">>
      [] s = "\"Venue\"" -> <<"\"", "V", "e", "n", "u", "e", "\"">>
      [] s = "[" -> <<"[">>
      [] s = "]" -> <<"]">>
      [] s = "," -> <<",">>
      [] s = " " -> <<" ">>
      [] s = "Events in Hyderabad" -> <<"E", "v", "e", "n", "t", "s", " ", "i", "n", " ", "H", "y", "d", "e", "r", "a", "b", "a", "d">>
      [] s = "<html>" -> <<"<", "h", "t", "m", "l", ">">>
      [] s = "Kingdom showtimes" -> <<"K", "i", "n", "g", "d", "o", "m", " ", "s", "h", "o", "w", "t", "i", "m", "e", "s">>
      [] s = "kingdom" -> <<"k", "i", "n", "g", "d", "o", "m">>
      [] s = "/kingdom/" -> <<"/", "k", "i", "n", "g", "d", "o", "m", "/">>
      [] s = "KINGDOM (Telugu)" -> <<"K", "I", "N", "G", "D", "O", "M", " ", "(", "T", "e", "l", "u", "g", "u", ")">>
      [] s = "Coolie" -> <<"C", "o", "o", "l", "i", "e">>
      [] s = "Kingdom 2D" -> <<"K", "i", "n", "g", "d", "o", "m", " ", "2", "D">>
      [] s = "20250809" -> <<"2", "0", "2", "5", "0", "8", "0", "9">>
      [] s = "20250730" -> <<"2", "0", "2", "5", "0", "7", "3", "0">>
      [] s = "Book Tickets" -> <<"B", "o", "o", "k", " ", "T", "i", "c", "k", "e", "t", "s">>
      [] s = "showtimes" -> <<"s", "h", "o", "w", "t", "i", "m", "e", "s">>
      [] s = "book tickets" -> <<"b", "o", "o", "k", " ", "t", "i", "c", "k", "e", "t", "s">>
      [] s = "buy tickets" -> <<"b", "u", "y", " ", "t", "i", "c", "k", "e", "t", "s">>

\* the text of the Event objects as far as the substring tests can see it:
\* every object carries "EventTitle":"<title>" and, per child, "EventName":"<name>"
RECURSIVE ChildEventsText(_)
ChildEventsText(child_events) ==
    IF child_events = <<>> THEN <<>>
    ELSE <<"\"", "E", "v", "e", "n", "t", "N", "a", "m", "e", "\"", ":", "\"">> \o MarkupChars(Head(child_events).EventName) \o <<"\"">>
         \o ChildEventsText(Tail(child_events))

RECURSIVE EventsText(_)
EventsText(events) ==
    IF events = <<>> THEN <<>>
    ELSE <<"\"", "E", "v", "e", "n", "t", "T", "i", "t", "l", "e", "\"", ":", "\"">> \o MarkupChars(Head(events).EventTitle) \o <<"\"">>
         \o ChildEventsText(Head(events).ChildEvents) \o EventsText(Tail(events))

TokenText(page_content, i) ==
    IF page_content.tokens[i] = EventsBlock THEN EventsText(page_content.events)
    ELSE MarkupChars(page_content.tokens[i])

\* sub in page_content (no occurrence spans two tokens)
PageContains(page_content, sub) ==
    \E i \in 1..Len(page_content.tokens) : Contains(TokenText(page_content, i), sub)

\* sub in page_content.lower()
PageContainsLower(page_content, sub) ==
    \E i \in 1..Len(page_content.tokens) : Contains(Lower(TokenText(page_content, i)), sub)

(***************************************************************************)
(* parse_venue_api_data.  The debug dumps it writes are diagnostics and    *)
(* are not modelled.                                                       *)
(***************************************************************************)
\* the first index >= k of a token that is not whitespace; Len + 1 when there is none
SkipSpaces(tokens, k) ==
    IF \E a \in k..Len(tokens) : tokens[a] # " "
    THEN CHOOSE a \in k..Len(tokens) : tokens[a] # " " /\ \A b \in k..(a - 1) : tokens[b] = " "
    ELSE Len(tokens) + 1

\* \s*,\s*"Date" matches right after position j
DateFollows(tokens, j) ==
    LET a == SkipSpaces(tokens, j + 1)
    IN  /\ a <= Len(tokens)
        /\ tokens[a] = ","
        /\ LET b == SkipSpaces(tokens, a + 1)
           IN  b <= Len(tokens) /\ tokens[b] = DateKey

\* the ends of a match of "Event":(\[.*?\])\s*,\s*"Date" that starts at token i
MatchEnds(tokens, i) ==
    IF tokens[i] = EventKey /\ i + 1 <= Len(tokens) /\ tokens[i + 1] = "["
    THEN {j \in (i + 2)..Len(tokens) : tokens[j] = "]" /\ DateFollows(tokens, j)}
    ELSE {}

\* re.search: the leftmost start, and for it the shortest group 1; <<>> when nothing matches
ApiMatch(tokens) ==
    LET starts == {i \in 1..Len(tokens) : MatchEnds(tokens, i) # {}}
    IN  IF starts = {} THEN <<>>
        ELSE LET i == CHOOSE a \in starts : \A b \in starts : a <= b
                 j == CHOOSE a \in MatchEnds(tokens, i) : \A b \in MatchEnds(tokens, i) : a <= b
             IN  SubSeq(tokens, i + 1, j)

\* json.loads(api_data_str): whitespace apart, "[" "]" or "[" objects "]"; anything else is a JSONDecodeError
JsonLoadsEvents(api_data_str, events) ==
    LET body == SelectSeq(api_data_str, LAMBDA tok : tok # " ")
    IN  IF body = <<"[", "]">> THEN [ok |-> TRUE, events_data |-> <<>>]
        ELSE IF body = <<"[", EventsBlock, "]">> THEN [ok |-> TRUE, events_data |-> events]
        ELSE [ok |-> FALSE, events_data |-> <<>>]

\* movie_name.lower() in text.lower()
NameIn(movie_name, text) == Contains(Lower(MarkupChars(text)), Lower(movie_name))

\* 'prasads' in url, on the configured URLs, computed once
PrasadsTable == [url \in UrlSet |-> Contains(Chars(url), <<"p", "r", "a", "s", "a", "d", "s">>)]

IsPrasadsUrl(url) == PrasadsTable[url]

\* faulty variant: the tag test dropped
ShowTimeCounts_unfiltered(show_time, target_date, url) ==
    MarkupChars(show_time.ShowDateCode) = target_date

\* lines 244-258: the date matches and, for a prasads URL, the attributes are the tag
ShowTimeCounts(show_time, target_date, url) ==
    /\ MarkupChars(show_time.ShowDateCode) = target_date
    /\ IsPrasadsUrl(url) => show_time.Attributes = "PCX SCREEN"

\* for show_time in show_times: ... break / continue
RECURSIVE ScanShowTimes(_, _, _)
ScanShowTimes(show_times, target_date, url) ==
    IF show_times = <<>> THEN FALSE
    ELSE IF ShowTimeCounts(Head(show_times), target_date, url) THEN TRUE
    ELSE ScanShowTimes(Tail(show_times), target_date, url)

\* for child_event in child_events: ... if has_showtimes: break
RECURSIVE ScanChildEvents(_, _, _)
ScanChildEvents(child_events, target_date, url) ==
    IF child_events = <<>> THEN FALSE
    ELSE IF ScanShowTimes(Head(child_events).ShowTimes, target_date, url) THEN TRUE
    ELSE ScanChildEvents(Tail(child_events), target_date, url)

\* faulty variant: the loop over the events stops at the first title match, bookable or not
RECURSIVE TitlePass_first_match(_, _, _, _, _)
TitlePass_first_match(events_data, movie_name, target_date, url, movie_found) ==
    IF events_data = <<>> THEN [movie_found |-> movie_found, has_showtimes |-> FALSE, raised |-> FALSE]
    ELSE IF NameIn(movie_name, Head(events_data).EventTitle)
    THEN [movie_found |-> TRUE, has_showtimes |-> ScanChildEvents(Head(events_data).ChildEvents, target_date, url), raised |-> FALSE]
    ELSE TitlePass_first_match(Tail(events_data), movie_name, target_date, url, movie_found)

\* lines 230-264: the pass over EventTitle
RECURSIVE TitlePass(_, _, _, _, _)
TitlePass(events_data, movie_name, target_date, url, movie_found) ==
    IF events_data = <<>> THEN [movie_found |-> movie_found, has_showtimes |-> FALSE, raised |-> FALSE]
    ELSE IF NameIn(movie_name, Head(events_data).EventTitle)
    THEN IF ScanChildEvents(Head(events_data).ChildEvents, target_date, url)
         THEN [movie_found |-> TRUE, has_showtimes |-> TRUE, raised |-> FALSE]
         ELSE TitlePass(Tail(events_data), movie_name, target_date, url, TRUE)
    ELSE TitlePass(Tail(events_data), movie_name, target_date, url, movie_found)

\* lines 270-287: the children of one event in the pass over EventName (no tag test)
RECURSIVE NamePassChildren(_, _, _, _)
NamePassChildren(child_events, movie_name, target_date, movie_found) ==
    IF child_events = <<>> THEN [movie_found |-> movie_found, has_showtimes |-> FALSE, raised |-> FALSE]
    ELSE IF NameIn(movie_name, Head(child_events).EventName)
    THEN IF \E k \in 1..Len(Head(child_events).ShowTimes) : MarkupChars(Head(child_events).ShowTimes[k].ShowDateCode) = target_date
         THEN [movie_found |-> TRUE, has_showtimes |-> TRUE, raised |-> FALSE]
         ELSE NamePassChildren(Tail(child_events), movie_name, target_date, TRUE)
    ELSE NamePassChildren(Tail(child_events), movie_name, target_date, movie_found)

\* lines 267-290: the pass over EventName, left after the first event with a matching child
RECURSIVE NamePass(_, _, _)
NamePass(events_data, movie_name, target_date) ==
    IF events_data = <<>> THEN [movie_found |-> FALSE, has_showtimes |-> FALSE, raised |-> FALSE]
    ELSE LET r == NamePassChildren(Head(events_data).ChildEvents, movie_name, target_date, FALSE)
         IN  IF r.movie_found THEN r ELSE NamePass(Tail(events_data), movie_name, target_date)

NotFound == [movie_found |-> FALSE, has_showtimes |-> FALSE, raised |-> FALSE]

\* faulty variant: a JSONDecodeError is let through to the caller
OnJsonError_raise == [movie_found |-> FALSE, has_showtimes |-> FALSE, raised |-> TRUE]

\* except json.JSONDecodeError: return False, False
OnJsonError == NotFound

\* returns (movie_found, has_showtimes); raised tells whether an exception left the function.
\* url is the URL string, target_date and movie_name are character sequences
parse_venue_api_data(page_content, movie_name, target_date, url) ==
    IF ~PageContains(page_content, <<"E", "v", "e", "n", "t">>) THEN NotFound
    ELSE LET api_data_str == ApiMatch(page_content.tokens)
         IN  IF api_data_str = <<>> THEN NotFound
             ELSE LET loaded == JsonLoadsEvents(api_data_str, page_content.events)
                  IN  IF ~loaded.ok THEN OnJsonError
                      ELSE LET first == TitlePass(loaded.events_data, movie_name, target_date, url, FALSE)
                           IN  IF first.movie_found THEN first
                               ELSE NamePass(loaded.events_data, movie_name, target_date)

(***************************************************************************)
(* State.                                                                  *)
(***************************************************************************)
\* the processes that can run the script; Spec runs them one at a time
Procs == {1, 2}

VARIABLES
    THEATRE_EMAIL_MAPPING,  \* theatre URL -> comma-separated recipients (environment)
    SENDER_EMAIL,           \* os.getenv('SENDER_EMAIL', ...) as each process read it
    SENDER_PASSWORD,
    tracking_file,          \* NOTIFICATION_TRACKING_FILE on disk
    backups,                \* number of notification_tracking.json.backup.* files
    now,                    \* datetime.now(): advances with every run of the script
    pc,                     \* where each process is in main / send_email
    available_theatres,     \* the result of check_movie, argument of send_email
    tracking_data,          \* send_email's local tracking dict
    new_notifications,
    email_groups,           \* the dict email_key -> theatres, in insertion order
    group_index,            \* position of the dispatch loop in email_groups
    outbox,                 \* the messages handed to smtplib in this run, with the outcome
    save_result,            \* what save_notification_tracking did in this run
    notified,               \* history: URLs covered by a sent message whose run saved the store
    satisfied,              \* history: argument lists of runs that sent a message and saved the store
    history,                \* history: URLs ever listed in a message that was sent, and URLs whose
                            \* last dispatch failed or was not followed by a written store
    cm_pc,                  \* where check_movie is
    url_index,              \* position of check_movie's loop in THEATRE_URLS
    held,                   \* the page-fetching resources open at the moment
    page_content,           \* the markup of the page of the current URL
    movie_found,
    has_showtimes,
    found_theatres,         \* check_movie's local available_theatres
    fetch_log,              \* history: what happened at each URL examined so far, in order
    call,                   \* a function called on its own: its name and arguments
    ret                     \* and what it returned

\* the state of main and send_email
send_vars == <<THEATRE_EMAIL_MAPPING, SENDER_EMAIL, SENDER_PASSWORD, tracking_file, backups, now, pc,
               available_theatres, tracking_data, new_notifications, email_groups, group_index,
               outbox, save_result, notified, satisfied, history>>

\* the state of check_movie
check_vars == <<cm_pc, url_index, held, page_content, movie_found, has_showtimes, found_theatres, fetch_log>>

call_vars == <<call, ret>>

vars == <<send_vars, check_vars, call_vars>>

sender == <<SENDER_EMAIL, SENDER_PASSWORD>>

(***************************************************************************)
(* The tracking file.                                                      *)
(***************************************************************************)
EmptyDict == <<>>

\* d[k] = v on a dict
DictSet(d, k, v) == [x \in (DOMAIN d) \cup {k} |-> IF x = k THEN v ELSE d[x]]

\* json.dump(tracking_data, f): the text of a JSON object
JsonDump(d) == [state |-> "valid", data |-> d]

AbsentFile == [state |-> "absent", data |-> EmptyDict]

\* the file after open(..., 'w') truncated it and nothing was written
EmptyFile == [state |-> "empty", data |-> EmptyDict]

\* the file holding text json.loads rejects (a partly written object)
CorruptFile == [state |-> "corrupt", data |-> EmptyDict]

\* the file holding whitespace only: content.strip() is empty
BlankFile == [state |-> "blank", data |-> EmptyDict]

\* the file that open() or read() refuses (no permission, bytes that are not UTF-8)
UnreadableFile == [state |-> "unreadable", data |-> EmptyDict]

\* what load_notification_tracking returns when nothing was raised to the caller
Loaded(data, f, nbackups) == [data |-> data, file |-> f, backups |-> nbackups, raised |-> FALSE]

\* faulty variant: the unparsable file is never moved aside
load_notification_tracking_in_place(f, nbackups, rename_ok) ==
    IF f.state = "valid" THEN Loaded(f.data, f, nbackups) ELSE Loaded(EmptyDict, f, nbackups)

\* returns the dict, and leaves the file and the backups as the call left them;
\* rename_ok: whether os.rename of the unparsable file succeeds
load_notification_tracking(f, nbackups, rename_ok) ==
    IF f.state = "absent" THEN Loaded(EmptyDict, f, nbackups)
    ELSE IF f.state = "empty" THEN Loaded(EmptyDict, f, nbackups)
    ELSE IF f.state = "blank" THEN Loaded(EmptyDict, f, nbackups)
    ELSE IF f.state = "corrupt"
         THEN IF rename_ok THEN Loaded(EmptyDict, AbsentFile, nbackups + 1)
              ELSE Loaded(EmptyDict, f, nbackups)
    ELSE IF f.state = "unreadable" THEN Loaded(EmptyDict, f, nbackups)
    ELSE Loaded(f.data, f, nbackups)

\* outcomes of save_notification_tracking: written, or an exception that is logged:
\* open() failed (file untouched), the write failed after open() truncated the file
\* (nothing or part of the object on disk)
SaveOutcomes == {"written", "open_failed", "truncated", "partial"}

\* faulty variant: the records on disk are kept beside the ones written
save_notification_tracking_merging(f, data, outcome) ==
    IF outcome = "written"
    THEN JsonDump([k \in (DOMAIN f.data) \cup (DOMAIN data) |-> IF k \in DOMAIN data THEN data[k] ELSE f.data[k]])
    ELSE IF outcome = "open_failed" THEN f
    ELSE IF outcome = "truncated" THEN EmptyFile
    ELSE CorruptFile

save_notification_tracking(f, data, outcome) ==
    IF outcome = "written" THEN JsonDump(data)
    ELSE IF outcome = "open_failed" THEN f
    ELSE IF outcome = "truncated" THEN EmptyFile
    ELSE CorruptFile

(***************************************************************************)
(* Notification tracking functions.                                        *)
(***************************************************************************)
\* faulty variant: the key is never looked up
is_notification_sent_never(theatre_url, recipient_emails, tracking) == FALSE

is_notification_sent(theatre_url, recipient_emails, tracking) ==
    create_notification_key(theatre_url, recipient_emails) \in DOMAIN tracking

mark_notification_sent(theatre_url, recipient_emails, tracking) ==
    DictSet(tracking, create_notification_key(theatre_url, recipient_emails),
            [theatre_url |-> theatre_url, sent_at |-> now, movie_name |-> MOVIE_NAME])

\* the three nested ifs shared by the filter, the grouping and the marking loops:
\* url in THEATRE_EMAIL_MAPPING, recipient_emails non-empty, emails non-empty
HasEmails(url) ==
    /\ url \in DOMAIN THEATRE_EMAIL_MAPPING
    /\ THEATRE_EMAIL_MAPPING[url] # ""
    /\ CleanEmails(THEATRE_EMAIL_MAPPING[url]) # <<>>

\* faulty variant: the recipient string is tested, the stripped addresses are not
IsNew_unstripped(theatre, tracking) ==
    /\ theatre.url \in DOMAIN THEATRE_EMAIL_MAPPING
    /\ THEATRE_EMAIL_MAPPING[theatre.url] # ""
    /\ ~is_notification_sent(theatre.url, CleanEmails(THEATRE_EMAIL_MAPPING[theatre.url]), tracking)

IsNew(theatre, tracking) ==
    /\ HasEmails(theatre.url)
    /\ ~is_notification_sent(theatre.url, CleanEmails(THEATRE_EMAIL_MAPPING[theatre.url]), tracking)

filter_new_notifications(available, tracking) ==
    SelectSeq(available, LAMBDA theatre : IsNew(theatre, tracking))

(***************************************************************************)
(* send_email: validation, grouping, messages.                             *)
(***************************************************************************)
\* faulty variant: the password check forgotten
SenderConfigured_email_only(email, password) == ~(email = SenderEmailDefault \/ email = "")

\* both sender checks pass (main.py makes the same two checks first)
SenderConfigured(email, password) ==
    /\ ~(email = SenderEmailDefault \/ email = "")
    /\ ~(password = "" \/ password = SenderPasswordDefault)

\* faulty variant: tuple(emails), the sort forgotten
EmailKey_unsorted(url) == CleanEmails(THEATRE_EMAIL_MAPPING[url])

\* email_key = tuple(sorted(emails))
EmailKey(url) == Sorted(CleanEmails(THEATRE_EMAIL_MAPPING[url]))

GroupPosition(groups, key) == IF \E i \in 1..Len(groups) : groups[i].key = key THEN CHOOSE i \in 1..Len(groups) : groups[i].key = key ELSE 0

\* email_groups[email_key].append(theatre), creating the entry when the key is new
AddToGroup(groups, theatre) ==
    LET key == EmailKey(theatre.url)
        at == GroupPosition(groups, key)
    IN  IF at = 0 THEN Append(groups, [key |-> key, theatres |-> <<theatre>>])
        ELSE [groups EXCEPT ![at].theatres = Append(@, theatre)]

RECURSIVE GroupTheatres(_, _)
GroupTheatres(theatres, groups) ==
    IF theatres = <<>> THEN groups
    ELSE GroupTheatres(Tail(theatres), IF HasEmails(Head(theatres).url) THEN AddToGroup(groups, Head(theatres)) ELSE groups)

\* the EmailMessage built for one group; Subject and body name the listed theatres
BuildMessage(from, recipient_emails, theatres) ==
    [From |-> from, Bcc |-> recipient_emails, To |-> <<>>, theatres |-> theatres]

\* the marking loop after a successful send
RECURSIVE MarkAll(_, _)
MarkAll(theatres, tracking) ==
    IF theatres = <<>> THEN tracking
    ELSE MarkAll(Tail(theatres),
                 IF HasEmails(Head(theatres).url)
                 THEN mark_notification_sent(Head(theatres).url, CleanEmails(THEATRE_EMAIL_MAPPING[Head(theatres).url]), tracking)
                 ELSE tracking)

\* nothing sent, nothing owed
NoHistory == [dispatched |-> {}, pending |-> {}]

(***************************************************************************)
(* check_movie not running, no function called on its own.                 *)
(***************************************************************************)
NoPage == [tokens |-> <<>>, events |-> <<>>]

CheckIdle ==
    /\ cm_pc = "idle"
    /\ url_index = 0
    /\ held = {}
    /\ page_content = NoPage
    /\ movie_found = FALSE
    /\ has_showtimes = FALSE
    /\ found_theatres = <<>>
    /\ fetch_log = <<>>

CallIdle ==
    /\ call = [fn |-> "none"]
    /\ ret = [done |-> FALSE]

(***************************************************************************)
(* Initial state: nothing has run, no tracking file exists yet.            *)
(***************************************************************************)
Init ==
    /\ THEATRE_EMAIL_MAPPING \in [UrlSet -> RecipientStrings]
    /\ SENDER_EMAIL = [p \in Procs |-> SenderEmailDefault]
    /\ SENDER_PASSWORD = [p \in Procs |-> SenderPasswordDefault]
    /\ tracking_file = AbsentFile
    /\ backups = 0
    /\ now = 0
    /\ pc = [p \in Procs |-> "idle"]
    /\ available_theatres = [p \in Procs |-> <<>>]
    /\ tracking_data = [p \in Procs |-> EmptyDict]
    /\ new_notifications = [p \in Procs |-> <<>>]
    /\ email_groups = [p \in Procs |-> <<>>]
    /\ group_index = [p \in Procs |-> 0]
    /\ outbox = [p \in Procs |-> <<>>]
    /\ save_result = [p \in Procs |-> "none"]
    /\ notified = {}
    /\ satisfied = {}
    /\ history = NoHistory
    /\ CheckIdle
    /\ CallIdle

(***************************************************************************)
(* main and check_movie's result.                                          *)
(***************************************************************************)
\* check_movie appends {'url', 'theatre', 'date'} for each URL found, in THEATRE_URLS order
TheatreOf(url) == [url |-> url, theatre |-> extract_theatre_info(url).theatre, date |-> extract_theatre_info(url).date]

CheckMovieResult(found) ==
    LET urls == SelectSeq(THEATRE_URLS, LAMBDA u : u \in found)
    IN  [i \in 1..Len(urls) |-> TheatreOf(urls[i])]

\* main: a new process starts, check_movie returns, send_email is called on a non-empty result
Main(p) ==
    /\ pc[p] = "idle"
    /\ now < MaxRuns
    /\ \E email \in SenderEmails, password \in SenderPasswords :
        /\ SENDER_EMAIL' = [SENDER_EMAIL EXCEPT ![p] = email]
        /\ SENDER_PASSWORD' = [SENDER_PASSWORD EXCEPT ![p] = password]
    /\ \E found \in SUBSET UrlSet :
        /\ available_theatres' = [available_theatres EXCEPT ![p] = CheckMovieResult(found)]
        /\ pc' = [pc EXCEPT ![p] = IF found = {} THEN "done" ELSE "send_email"]
    /\ now' = now + 1
    /\ tracking_data' = [tracking_data EXCEPT ![p] = EmptyDict]
    /\ new_notifications' = [new_notifications EXCEPT ![p] = <<>>]
    /\ email_groups' = [email_groups EXCEPT ![p] = <<>>]
    /\ group_index' = [group_index EXCEPT ![p] = 0]
    /\ outbox' = [outbox EXCEPT ![p] = <<>>]
    /\ save_result' = [save_result EXCEPT ![p] = "none"]
    /\ UNCHANGED <<check_vars, call_vars>>
    /\ UNCHANGED <<THEATRE_EMAIL_MAPPING, tracking_file, backups, notified, satisfied, history>>

(***************************************************************************)
(* send_email, main_with_tracking.py.                                      *)
(***************************************************************************)
\* load, filter, validate the sender, group: up to the dispatch loop
SendEmailBegin(p) ==
    /\ pc[p] = "send_email"
    /\ \E rename_ok \in BOOLEAN :
       LET loaded == load_notification_tracking(tracking_file, backups, rename_ok)
           new == filter_new_notifications(available_theatres[p], loaded.data)
           groups == GroupTheatres(new, <<>>)
           proceed == new # <<>> /\ SenderConfigured(SENDER_EMAIL[p], SENDER_PASSWORD[p]) /\ groups # <<>>
       IN  /\ tracking_file' = loaded.file
           /\ backups' = loaded.backups
           /\ tracking_data' = [tracking_data EXCEPT ![p] = loaded.data]
           /\ new_notifications' = [new_notifications EXCEPT ![p] = new]
           /\ email_groups' = [email_groups EXCEPT ![p] = IF proceed THEN groups ELSE <<>>]
           /\ group_index' = [group_index EXCEPT ![p] = IF proceed THEN 1 ELSE 0]
           /\ pc' = [pc EXCEPT ![p] = IF proceed THEN "dispatch" ELSE "done"]
    /\ UNCHANGED <<check_vars, call_vars>>
    /\ UNCHANGED <<THEATRE_EMAIL_MAPPING, sender, now, available_theatres, outbox, save_result, notified, satisfied, history>>

CurrentGroup(p) == email_groups[p][group_index[p]]

\* smtp.send_message(msg) returned: the marking loop is next
DispatchOk(p) ==
    /\ pc[p] = "dispatch"
    /\ group_index[p] <= Len(email_groups[p])
    /\ outbox' = [outbox EXCEPT ![p] = Append(@, [msg |-> BuildMessage(SENDER_EMAIL[p], CurrentGroup(p).key, CurrentGroup(p).theatres), status |-> "sent"])]
    /\ pc' = [pc EXCEPT ![p] = "mark"]
    /\ history' = [history EXCEPT !.dispatched = @ \cup {CurrentGroup(p).theatres[j].url : j \in 1..Len(CurrentGroup(p).theatres)}]
    /\ UNCHANGED <<check_vars, call_vars>>
    /\ UNCHANGED <<THEATRE_EMAIL_MAPPING, sender, tracking_file, backups, now, available_theatres, tracking_data,
                   new_notifications, email_groups, group_index, save_result, notified, satisfied>>

\* faulty variant: the handler leaves the loop
OnDispatchError_break(p) ==
    /\ pc' = [pc EXCEPT ![p] = "dispatch"]
    /\ group_index' = [group_index EXCEPT ![p] = Len(email_groups[p]) + 1]

\* except Exception: log, then the loop goes on with the next group
OnDispatchError(p) ==
    /\ pc' = [pc EXCEPT ![p] = "dispatch"]
    /\ group_index' = [group_index EXCEPT ![p] = @ + 1]

\* faulty variant: the marking loop placed before the send, so it runs although the send raised
DispatchFail_marking(p) ==
    /\ pc[p] = "dispatch"
    /\ group_index[p] <= Len(email_groups[p])
    /\ outbox' = [outbox EXCEPT ![p] = Append(@, [msg |-> BuildMessage(SENDER_EMAIL[p], CurrentGroup(p).key, CurrentGroup(p).theatres), status |-> "failed"])]
    /\ tracking_data' = [tracking_data EXCEPT ![p] = MarkAll(CurrentGroup(p).theatres, @)]
    /\ OnDispatchError(p)
    /\ UNCHANGED <<check_vars, call_vars>>
    /\ UNCHANGED <<THEATRE_EMAIL_MAPPING, sender, tracking_file, backups, now, available_theatres,
                   new_notifications, email_groups, save_result, notified, satisfied, history>>

\* connecting, logging in or sending raised
DispatchFail(p) ==
    /\ pc[p] = "dispatch"
    /\ group_index[p] <= Len(email_groups[p])
    /\ outbox' = [outbox EXCEPT ![p] = Append(@, [msg |-> BuildMessage(SENDER_EMAIL[p], CurrentGroup(p).key, CurrentGroup(p).theatres), status |-> "failed"])]
    /\ OnDispatchError(p)
    /\ UNCHANGED <<check_vars, call_vars>>
    /\ UNCHANGED <<THEATRE_EMAIL_MAPPING, sender, tracking_file, backups, now, available_theatres, tracking_data,
                   new_notifications, email_groups, save_result, notified, satisfied, history>>

\* mark every theatre of the group just sent
Mark(p) ==
    /\ pc[p] = "mark"
    /\ tracking_data' = [tracking_data EXCEPT ![p] = MarkAll(CurrentGroup(p).theatres, @)]
    /\ group_index' = [group_index EXCEPT ![p] = @ + 1]
    /\ pc' = [pc EXCEPT ![p] = "dispatch"]
    /\ UNCHANGED <<check_vars, call_vars>>
    /\ UNCHANGED <<THEATRE_EMAIL_MAPPING, sender, tracking_file, backups, now, available_theatres,
                   new_notifications, email_groups, outbox, save_result, notified, satisfied, history>>

SentUrls(p) == {outbox[p][i].msg.theatres[j].url : <<i, j>> \in {x \in (1..Len(outbox[p])) \X (1..Len(THEATRE_URLS)) : outbox[p][x[1]].status = "sent" /\ x[2] <= Len(outbox[p][x[1]].msg.theatres)}}

\* the URLs listed in the messages of the run whose dispatch raised
UnsentUrls(p) == {outbox[p][i].msg.theatres[j].url : <<i, j>> \in {x \in (1..Len(outbox[p])) \X (1..Len(THEATRE_URLS)) : outbox[p][x[1]].status = "failed" /\ x[2] <= Len(outbox[p][x[1]].msg.theatres)}}

\* after the loop: save_notification_tracking(tracking_data)
Save(p) ==
    /\ pc[p] = "dispatch"
    /\ group_index[p] > Len(email_groups[p])
    /\ \E outcome \in SaveOutcomes :
        /\ tracking_file' = save_notification_tracking(tracking_file, tracking_data[p], outcome)
        /\ save_result' = [save_result EXCEPT ![p] = outcome]
        /\ notified' = IF outcome = "written" THEN notified \cup SentUrls(p) ELSE {}
        /\ satisfied' = IF outcome = "written" /\ SentUrls(p) # {} THEN satisfied \cup {available_theatres[p]} ELSE satisfied
        /\ history' = [history EXCEPT !.pending =
                          (@ \ {available_theatres[p][i].url : i \in 1..Len(available_theatres[p])})
                              \cup UnsentUrls(p) \cup (IF outcome = "written" THEN {} ELSE SentUrls(p))]
    /\ pc' = [pc EXCEPT ![p] = "done"]
    /\ UNCHANGED <<check_vars, call_vars>>
    /\ UNCHANGED <<THEATRE_EMAIL_MAPPING, sender, backups, now, available_theatres, tracking_data,
                   new_notifications, email_groups, group_index, outbox>>

\* the process exits: its memory is gone, the tracking file stays
Exit(p) ==
    /\ pc[p] \in {"done", "plain_done"}
    /\ pc' = [pc EXCEPT ![p] = "idle"]
    /\ available_theatres' = [available_theatres EXCEPT ![p] = <<>>]
    /\ tracking_data' = [tracking_data EXCEPT ![p] = EmptyDict]
    /\ new_notifications' = [new_notifications EXCEPT ![p] = <<>>]
    /\ email_groups' = [email_groups EXCEPT ![p] = <<>>]
    /\ group_index' = [group_index EXCEPT ![p] = 0]
    /\ outbox' = [outbox EXCEPT ![p] = <<>>]
    /\ save_result' = [save_result EXCEPT ![p] = "none"]
    /\ SENDER_EMAIL' = [SENDER_EMAIL EXCEPT ![p] = SenderEmailDefault]
    /\ SENDER_PASSWORD' = [SENDER_PASSWORD EXCEPT ![p] = SenderPasswordDefault]
    /\ UNCHANGED <<check_vars, call_vars>>
    /\ UNCHANGED <<THEATRE_EMAIL_MAPPING, tracking_file, backups, now, notified, satisfied, history>>

(***************************************************************************)
(* main.py: the script without tracking; one message to RECIPIENT_EMAILS.  *)
(***************************************************************************)
\* os.getenv('RECIPIENT_EMAILS', 'recipient@example.com').split(',')
RecipientEmailsOf(env) == Split(Chars(env), ",")

\* not RECIPIENT_EMAILS or RECIPIENT_EMAILS == ['recipient@example.com'] or not any(RECIPIENT_EMAILS)
RecipientsConfigured(recipients) ==
    /\ recipients # <<>>
    /\ recipients # <<Chars(RecipientEmailsDefault)>>
    /\ \E i \in 1..Len(recipients) : recipients[i] # <<>>

PlainMessage(from, recipients, theatres) ==
    [From |-> from, Bcc |-> <<>>, To |-> recipients, theatres |-> theatres]

\* main of main.py: check_movie returns, send_email validates and sends one message
MainPlain(p) ==
    /\ pc[p] = "idle"
    /\ now < MaxRuns
    /\ \E email \in SenderEmails, password \in SenderPasswords, found \in SUBSET UrlSet, env \in RecipientEnvValues :
        LET theatres == CheckMovieResult(found)
            recipients == RecipientEmailsOf(env)
            proceed == theatres # <<>> /\ SenderConfigured(email, password) /\ RecipientsConfigured(recipients)
        IN  /\ SENDER_EMAIL' = [SENDER_EMAIL EXCEPT ![p] = email]
            /\ SENDER_PASSWORD' = [SENDER_PASSWORD EXCEPT ![p] = password]
            /\ available_theatres' = [available_theatres EXCEPT ![p] = theatres]
            /\ \E status \in IF proceed THEN {"sent", "failed"} ELSE {"none"} :
                outbox' = [outbox EXCEPT ![p] =
                    IF proceed THEN <<[msg |-> PlainMessage(email, recipients, theatres), status |-> status]>> ELSE <<>>]
    /\ now' = now + 1
    /\ pc' = [pc EXCEPT ![p] = "plain_done"]
    /\ tracking_data' = [tracking_data EXCEPT ![p] = EmptyDict]
    /\ new_notifications' = [new_notifications EXCEPT ![p] = <<>>]
    /\ email_groups' = [email_groups EXCEPT ![p] = <<>>]
    /\ group_index' = [group_index EXCEPT ![p] = 0]
    /\ save_result' = [save_result EXCEPT ![p] = "none"]
    /\ UNCHANGED <<check_vars, call_vars>>
    /\ UNCHANGED <<THEATRE_EMAIL_MAPPING, tracking_file, backups, notified, satisfied, history>>

\* one run at a time (the scheduler's guarantee): process 1 runs main_with_tracking.py again and again
Next ==
    \/ Main(1)
    \/ SendEmailBegin(1)
    \/ DispatchOk(1)
    \/ DispatchFail(1)
    \/ Mark(1)
    \/ Save(1)
    \/ Exit(1)

Spec == Init /\ [][Next]_vars

\* the same, with runs of main.py (the variant without tracking) in between
NextScripts ==
    \/ Next
    \/ MainPlain(1)

SpecScripts == Init /\ [][NextScripts]_vars

\* two processes of main_with_tracking.py started without regard to each other (no
\* scheduler between them): their steps interleave on the one tracking file
InitOverlap ==
    /\ Init
    /\ THEATRE_EMAIL_MAPPING \in [UrlSet -> {"b", "a,b"}]

NextOverlap ==
    \/ \E p \in Procs : Main(p)
    \/ \E p \in Procs : SendEmailBegin(p)
    \/ \E p \in Procs : DispatchOk(p)
    \/ \E p \in Procs : DispatchFail(p)
    \/ \E p \in Procs : Mark(p)
    \/ \E p \in Procs : Save(p)
    \/ \E p \in Procs : Exit(p)

SpecOverlap == InitOverlap /\ [][NextOverlap]_vars

(***************************************************************************)
(* Functions called on their own, on arguments drawn from bounded sets.    *)
(***************************************************************************)
\* main and send_email not running, no recipients configured, no tracking file
SendIdle ==
    /\ THEATRE_EMAIL_MAPPING = [url \in UrlSet |-> ""]
    /\ SENDER_EMAIL = [p \in Procs |-> SenderEmailDefault]
    /\ SENDER_PASSWORD = [p \in Procs |-> SenderPasswordDefault]
    /\ tracking_file = AbsentFile
    /\ backups = 0
    /\ now = 0
    /\ pc = [p \in Procs |-> "idle"]
    /\ available_theatres = [p \in Procs |-> <<>>]
    /\ tracking_data = [p \in Procs |-> EmptyDict]
    /\ new_notifications = [p \in Procs |-> <<>>]
    /\ email_groups = [p \in Procs |-> <<>>]
    /\ group_index = [p \in Procs |-> 0]
    /\ outbox = [p \in Procs |-> <<>>]
    /\ save_result = [p \in Procs |-> "none"]
    /\ notified = {}
    /\ satisfied = {}
    /\ history = NoHistory

\* url.split('/')[-1] on the configured URLs, computed once
UrlDateTable == [url \in UrlSet |-> LET parts == Split(Chars(url), "/") IN parts[Len(parts)]]

UrlDate(url) == UrlDateTable[url]

\* markup in which the Event array is found and is valid JSON
WellFormedMarkup ==
    { <<"<html>", EventKey, "[", EventsBlock, "]", ",", DateKey>>,
      <<EventKey, "[", " ", EventsBlock, " ", "]", " ", ",", " ", DateKey, "Book Tickets">> }

\* markup without the marker, without a match of the pattern, or with a region json.loads rejects
OtherMarkup ==
    { <<"<html>", "Kingdom showtimes">>,
      <<"Events in Hyderabad", "kingdom">>,
      <<EventKey, "[", EventsBlock, "]", ",", "\"Venue\"">>,
      <<EventKey, " ", "[", EventsBlock, "]", ",", DateKey>>,
      <<EventKey, "[", EventsBlock, "<html>", "]", ",", DateKey>>,
      <<EventKey, "[", EventsBlock, "]", "<html>", "]", ",", DateKey>>,
      <<EventKey, "[", "]", ",", "\"Venue\"", EventKey, "[", EventsBlock, "]", ",", DateKey>>,
      <<EventKey, "[", "]", ",", DateKey, "Kingdom showtimes">> }

ParsePages ==
    {[tokens |-> tokens, events |-> events] : tokens \in WellFormedMarkup, events \in EventLists}
        \cup {[tokens |-> tokens, events |-> events] : tokens \in OtherMarkup, events \in SeqsUpTo(EventRecords, 1)}

InitParse ==
    /\ SendIdle
    /\ CheckIdle
    /\ call \in {[fn |-> "parse_venue_api_data", page_content |-> page, url |-> url] : page \in ParsePages, url \in UrlSet}
    /\ ret = [done |-> FALSE]

\* parse_venue_api_data(page_content, MOVIE_NAME, url_date, url), as check_movie calls it
CallParse ==
    /\ call.fn = "parse_venue_api_data"
    /\ ~ret.done
    /\ ret' = [done |-> TRUE, value |-> parse_venue_api_data(call.page_content, MOVIE_NAME, UrlDate(call.url), call.url)]
    /\ UNCHANGED <<send_vars, check_vars, call>>

NextParse == CallParse

SpecParse == InitParse /\ [][NextParse]_vars

\* the characters of the segments URLs are put together from
SegmentChars(s) ==
    CASE s = "https:" -> <<"h", "t", "t", "p", "s", ":">>
      [] s = "in.bookmyshow.com" -> <<"i", "n", ".", "b", "o", "o", "k", "m", "y", "s", "h", "o", "w", ".", "c", "o", "m">>
      [] s = "cinemas" -> <<"c", "i", "n", "e", "m", "a", "s">>
      [] s = "hyderabad" -> <<"h", "y", "d", "e", "r", "a", "b", "a", "d">>
      [] s = "buytickets" -> <<"b", "u", "y", "t", "i", "c", "k", "e", "t", "s">>
      [] s = "PRHN" -> <<"P", "R", "H", "N">>
      [] s = "prasads-multiplex-hyderabad" -> <<"p", "r", "a", "s", "a", "d", "s", "-", "m", "u", "l", "t", "i", "p", "l", "e", "x", "-", "h", "y", "d", "e", "r", "a", "b", "a", "d">>
      [] s = "sudarshan-35mm" -> <<"s", "u", "d", "a", "r", "s", "h", "a", "n", "-", "3", "5", "m", "m">>
      [] s = "amb-cinemas-gachibowli" -> <<"a", "m", "b", "-", "c", "i", "n", "e", "m", "a", "s", "-", "g", "a", "c", "h", "i", "b", "o", "w", "l", "i">>
      [] s = "20250809" -> <<"2", "0", "2", "5", "0", "8", "0", "9">>
      [] s = "2025080" -> <<"2", "0", "2", "5", "0", "8", "0">>
      [] s = "2025-8-9" -> <<"2", "0", "2", "5", "-", "8", "-", "9">>
      [] s = "tomorrow" -> <<"t", "o", "m", "o", "r", "r", "o", "w">>
      [] s = "" -> <<>>

\* '/'.join(segments)
RECURSIVE JoinSlash(_)
JoinSlash(segments) ==
    IF segments = <<>> THEN <<>>
    ELSE IF Len(segments) = 1 THEN SegmentChars(segments[1])
    ELSE SegmentChars(segments[1]) \o <<"/">> \o JoinSlash(Tail(segments))

TheatreSlugs == {"prasads-multiplex-hyderabad", "sudarshan-35mm", "amb-cinemas-gachibowli"}

LastSegments == {"20250809", "2025080", "2025-8-9", "tomorrow", ""}

\* URLs as lists of segments: the shape of the configured URLs, the shape with the
\* theatre slug right after the host, and shorter ones
InfoUrls ==
    UNION { { <<"https:", "", "in.bookmyshow.com", "cinemas", "hyderabad", slug, "buytickets", "PRHN", last>>,
              <<"https:", "", "in.bookmyshow.com", "buytickets", slug, last>>,
              <<"https:", "", "in.bookmyshow.com", slug, last>>,
              <<"in.bookmyshow.com", "buytickets", slug, last>>,
              <<slug, last>>,
              <<last>> } : <<slug, last>> \in TheatreSlugs \X LastSegments }

InitInfo ==
    /\ SendIdle
    /\ CheckIdle
    /\ call \in {[fn |-> "extract_theatre_info", url |-> url] : url \in InfoUrls}
    /\ ret = [done |-> FALSE]

CallInfo ==
    /\ call.fn = "extract_theatre_info"
    /\ ~ret.done
    /\ ret' = [done |-> TRUE, value |-> ExtractTheatreInfoOfChars(JoinSlash(call.url))]
    /\ UNCHANGED <<send_vars, check_vars, call>>

NextInfo == CallInfo

SpecInfo == InitInfo /\ [][NextInfo]_vars

\* records mark_notification_sent writes
TrackingRecords == {[theatre_url |-> url, sent_at |-> at, movie_name |-> MOVIE_NAME] : url \in UrlSet, at \in 0..1}

\* the dicts a written tracking file can hold: each key with a record of a URL of that key
StoredDicts ==
    LET keys == {create_notification_key(url, "b") : url \in UrlSet}
    IN  UNION { { d \in [ks -> TrackingRecords] :
                    \A k \in ks : create_notification_key(d[k].theatre_url, "b") = k }
                : ks \in SUBSET keys }

StoredFiles == {AbsentFile, EmptyFile, BlankFile, CorruptFile, UnreadableFile} \cup {JsonDump(d) : d \in StoredDicts}

InitLoad ==
    /\ SENDER_EMAIL = [p \in Procs |-> SenderEmailDefault]
    /\ SENDER_PASSWORD = [p \in Procs |-> SenderPasswordDefault]
    /\ THEATRE_EMAIL_MAPPING = [url \in UrlSet |-> ""]
    /\ tracking_file \in StoredFiles
    /\ backups \in 0..MaxBackups
    /\ now = 0
    /\ pc = [p \in Procs |-> "idle"]
    /\ available_theatres = [p \in Procs |-> <<>>]
    /\ tracking_data = [p \in Procs |-> EmptyDict]
    /\ new_notifications = [p \in Procs |-> <<>>]
    /\ email_groups = [p \in Procs |-> <<>>]
    /\ group_index = [p \in Procs |-> 0]
    /\ outbox = [p \in Procs |-> <<>>]
    /\ save_result = [p \in Procs |-> "none"]
    /\ notified = {}
    /\ satisfied = {}
    /\ history = NoHistory
    /\ CheckIdle
    /\ call = [fn |-> "load_notification_tracking", file |-> tracking_file, backups |-> backups]
    /\ ret = [done |-> FALSE]

\* load_notification_tracking()
CallLoad ==
    /\ call.fn = "load_notification_tracking"
    /\ ~ret.done
    /\ \E rename_ok \in BOOLEAN :
       LET loaded == load_notification_tracking(tracking_file, backups, rename_ok)
       IN  /\ tracking_file' = loaded.file
           /\ backups' = loaded.backups
           /\ ret' = [done |-> TRUE, value |-> loaded.data, raised |-> loaded.raised, rename_ok |-> rename_ok]
    /\ UNCHANGED <<THEATRE_EMAIL_MAPPING, sender, now, pc, available_theatres, tracking_data, new_notifications,
                   email_groups, group_index, outbox, save_result, notified, satisfied, history, check_vars, call>>

NextLoad == CallLoad

SpecLoad == InitLoad /\ [][NextLoad]_vars

(***************************************************************************)
(* check_movie (the same text in both scripts).                            *)
(***************************************************************************)
\* a page whose Event list has the movie with a show on each date: tagged on 20250809, untagged on 20250730
PageBookable ==
    [tokens |-> <<"<html>", EventKey, "[", EventsBlock, "]", ",", DateKey>>,
     events |-> <<[EventTitle |-> "KINGDOM (Telugu)", ChildEvents |-> <<[EventName |-> "Kingdom 2D", ShowTimes |->
                    <<[ShowDateCode |-> "20250809", Attributes |-> "PCX SCREEN"], [ShowDateCode |-> "20250730", Attributes |-> None]>>]>>]>>]

\* the movie is listed, its only show is on 20250809 and carries no tag
PageUntagged ==
    [tokens |-> <<EventKey, "[", " ", EventsBlock, " ", "]", " ", ",", " ", DateKey, "Book Tickets">>,
     events |-> <<[EventTitle |-> "KINGDOM (Telugu)", ChildEvents |-> <<[EventName |-> "Kingdom 2D", ShowTimes |->
                    <<[ShowDateCode |-> "20250809", Attributes |-> None]>>]>>]>>]

\* the movie is listed without any show
PageDateless ==
    [tokens |-> <<"<html>", EventKey, "[", EventsBlock, "]", ",", DateKey, "Kingdom showtimes">>,
     events |-> <<[EventTitle |-> "KINGDOM (Telugu)", ChildEvents |-> <<>>]>>]

\* no embedded data; the text names the movie next to a corroborating keyword
PageTextOnly == [tokens |-> <<"<html>", "Kingdom showtimes">>, events |-> <<>>]

\* the Event list is not valid JSON; the page names the movie in an Event title and has a keyword
PageBadJson ==
    [tokens |-> <<EventKey, "[", EventsBlock, "<html>", "]", ",", DateKey, "Book Tickets">>,
     events |-> <<[EventTitle |-> "KINGDOM (Telugu)", ChildEvents |-> <<[EventName |-> "Kingdom 2D", ShowTimes |->
                    <<[ShowDateCode |-> "20250809", Attributes |-> "PCX SCREEN"], [ShowDateCode |-> "20250730", Attributes |-> None]>>]>>]>>]

\* the movie is named, but no keyword corroborates it
PageNameOnly == [tokens |-> <<"Events in Hyderabad", "kingdom">>, events |-> <<>>]

\* another movie only
PageOtherMovie ==
    [tokens |-> <<"<html>", EventKey, "[", EventsBlock, "]", ",", DateKey, "Book Tickets">>,
     events |-> <<[EventTitle |-> "Coolie", ChildEvents |-> <<[EventName |-> "Coolie", ShowTimes |->
                    <<[ShowDateCode |-> "20250809", Attributes |-> "PCX SCREEN"]>>]>>]>>]

\* what page.content() can return
FetchedPages == {PageBookable, PageUntagged, PageDateless, PageTextOnly, PageBadJson, PageNameOnly, PageOtherMovie}

\* the patterns of lines 443-449
FallbackPatterns ==
    { <<"\"">> \o Lower(MOVIE_NAME) \o <<"\"">>,
      <<"/">> \o Lower(MOVIE_NAME) \o <<"/">>,
      MarkupChars("showtimes"), MarkupChars("book tickets"), MarkupChars("buy tickets") }

\* lines 441-449: the name is in the lower-cased content, and so is one of the patterns
FallbackMatchesPage(content) ==
    /\ PageContainsLower(content, Lower(MOVIE_NAME))
    /\ \E pattern \in FallbackPatterns : PageContainsLower(content, pattern)

FallbackTable == [content \in FetchedPages |-> FallbackMatchesPage(content)]

FallbackMatches(content) == FallbackTable[content]

\* what the Showtime Extractor reports for each page at each URL, computed once
ExtractorTable ==
    [content \in FetchedPages |-> [url \in UrlSet |-> parse_venue_api_data(content, MOVIE_NAME, UrlDate(url), url)]]

CurrentUrl == THEATRE_URLS[url_index]

\* the resources of the check of URL number i
Resources(kinds, i) == {[kind |-> k, of |-> i] : k \in kinds}

\* faulty variant: leaving the block stops nothing
ExitPlaywright_leak(resources) == resources

\* leaving "async with async_playwright() as p": the driver stops, and with it every
\* browser, context and page started through it
ExitPlaywright(resources) == {}

\* faulty variant: the handler gives up on the remaining URLs
OnUrlError_abort ==
    /\ url_index' = Len(THEATRE_URLS) + 1
    /\ cm_pc' = "loop"

\* lines 479-481: except Exception: log, continue
OnUrlError ==
    /\ url_index' = url_index + 1
    /\ cm_pc' = "loop"

\* faulty variant: the downgrade forgotten
StillFound_always(found, showtimes) == found

\* lines 456-458: if movie_found and not has_showtimes: movie_found = False
StillFound(found, showtimes) == found /\ showtimes

LogEntry(url, status) ==
    [url |-> url, status |-> status, content |-> NoPage, extracted |-> FALSE, report |-> NotFound,
     searched |-> FALSE, appended |-> FALSE]

\* line 341: available_theatres = []
CheckMovieBegin ==
    /\ cm_pc = "idle"
    /\ fetch_log = <<>>
    /\ cm_pc' = "loop"
    /\ url_index' = 1
    /\ found_theatres' = <<>>
    /\ UNCHANGED <<held, page_content, movie_found, has_showtimes, fetch_log>>
    /\ UNCHANGED <<send_vars, call_vars>>

\* lines 347-412: playwright started, browser launched, context and page made, the page loaded
OpenPage ==
    /\ cm_pc = "loop"
    /\ url_index <= Len(THEATRE_URLS)
    /\ held' = held \cup Resources({"playwright", "browser", "context", "page"}, url_index)
    /\ \E content \in FetchedPages : page_content' = content
    /\ movie_found' = FALSE
    /\ has_showtimes' = FALSE
    /\ fetch_log' = Append(fetch_log, LogEntry(CurrentUrl, "open"))
    /\ cm_pc' = "opened"
    /\ UNCHANGED <<url_index, found_theatres>>
    /\ UNCHANGED <<send_vars, call_vars>>

\* one of the steps of lines 347-408 raised (launch failed, navigation timed out, ...)
\* with the resources started so far open
OpenPageFail ==
    /\ cm_pc = "loop"
    /\ url_index <= Len(THEATRE_URLS)
    /\ \E started \in {{}, {"playwright"}, {"playwright", "browser"}, {"playwright", "browser", "context"},
                       {"playwright", "browser", "context", "page"}} :
        held' = ExitPlaywright(held \cup Resources(started, url_index))
    /\ fetch_log' = Append(fetch_log, LogEntry(CurrentUrl, "raised"))
    /\ OnUrlError
    /\ UNCHANGED <<page_content, movie_found, has_showtimes, found_theatres>>
    /\ UNCHANGED <<send_vars, call_vars>>

\* lines 414-435: page.content() and the Showtime Extractor; an exception is logged and dropped
Extract ==
    /\ cm_pc = "opened"
    /\ \E content_read \in BOOLEAN :
        LET report == IF content_read THEN ExtractorTable[page_content][CurrentUrl] ELSE NotFound
        IN  /\ movie_found' = (IF report.raised THEN FALSE ELSE report.movie_found)
            /\ has_showtimes' = (IF report.raised THEN FALSE ELSE report.has_showtimes)
            /\ fetch_log' = [fetch_log EXCEPT ![Len(fetch_log)].extracted = content_read,
                                              ![Len(fetch_log)].report = report,
                                              ![Len(fetch_log)].content = page_content]
    /\ cm_pc' = "parsed"
    /\ UNCHANGED <<url_index, held, page_content, found_theatres>>
    /\ UNCHANGED <<send_vars, call_vars>>

\* lines 438-453: the plain-text search, only when the movie was not found
Fallback ==
    /\ cm_pc = "parsed"
    /\ \E content_read \in (IF movie_found THEN {FALSE} ELSE BOOLEAN) :
        /\ movie_found' = (movie_found \/ (content_read /\ FallbackMatches(page_content)))
        /\ fetch_log' = [fetch_log EXCEPT ![Len(fetch_log)].searched = content_read,
                                          ![Len(fetch_log)].content = page_content]
    /\ cm_pc' = "searched"
    /\ UNCHANGED <<url_index, held, page_content, has_showtimes, found_theatres>>
    /\ UNCHANGED <<send_vars, call_vars>>

\* lines 456-473: the downgrade, page.close(), browser.close(), the block left, the append
CloseAndAppend ==
    /\ cm_pc = "searched"
    /\ held' = ExitPlaywright(held \ Resources({"page", "browser"}, url_index))
    /\ movie_found' = StillFound(movie_found, has_showtimes)
    /\ found_theatres' = IF StillFound(movie_found, has_showtimes) THEN Append(found_theatres, TheatreOf(CurrentUrl)) ELSE found_theatres
    /\ fetch_log' = [fetch_log EXCEPT ![Len(fetch_log)].status = "checked",
                                      ![Len(fetch_log)].appended = StillFound(movie_found, has_showtimes)]
    /\ url_index' = url_index + 1
    /\ cm_pc' = "loop"
    /\ UNCHANGED <<page_content, has_showtimes>>
    /\ UNCHANGED <<send_vars, call_vars>>

\* page.close() or browser.close() raised: the block is left through the exception
CloseFail ==
    /\ cm_pc = "searched"
    /\ held' = ExitPlaywright(held)
    /\ movie_found' = StillFound(movie_found, has_showtimes)
    /\ fetch_log' = [fetch_log EXCEPT ![Len(fetch_log)].status = "raised"]
    /\ OnUrlError
    /\ UNCHANGED <<page_content, has_showtimes, found_theatres>>
    /\ UNCHANGED <<send_vars, call_vars>>

\* lines 483-488: return available_theatres
CheckMovieReturn ==
    /\ cm_pc = "loop"
    /\ url_index > Len(THEATRE_URLS)
    /\ cm_pc' = "returned"
    /\ UNCHANGED <<url_index, held, page_content, movie_found, has_showtimes, found_theatres, fetch_log>>
    /\ UNCHANGED <<send_vars, call_vars>>

InitCheck ==
    /\ SendIdle
    /\ CheckIdle
    /\ CallIdle

NextCheck ==
    \/ CheckMovieBegin
    \/ OpenPage
    \/ OpenPageFail
    \/ Extract
    \/ Fallback
    \/ CloseAndAppend
    \/ CloseFail
    \/ CheckMovieReturn

SpecCheck == InitCheck /\ [][NextCheck]_vars

(***************************************************************************)
(* Vocabulary of the properties.                                           *)
(***************************************************************************)
Range(s) == {s[i] : i \in 1..Len(s)}

ListedUrls(m) == {m.theatres[j].url : j \in 1..Len(m.theatres)}

\* the messages of this run, sent or failed, that list the URL
MessagesListing(p, url) == {i \in 1..Len(outbox[p]) : url \in ListedUrls(outbox[p][i].msg)}

\* the recipient string of the URL holds a character that is neither a comma nor a blank
NonBlankRecipients(url) ==
    \E i \in 1..Len(Chars(THEATRE_EMAIL_MAPPING[url])) : Chars(THEATRE_EMAIL_MAPPING[url])[i] \notin {",", " "}

\* theatreName + "_" + readableDate + "_" + movieName, from the fields of an AvailabilityResult
KeyOfTheatre(t) == t.theatre \o <<"_">> \o t.date \o <<"_">> \o MOVIE_NAME

Count(e, l) == Cardinality({i \in 1..Len(l) : l[i] = e})

\* the two URLs are configured with the same addresses, each as often, in any order
SameAddresses(u1, u2) ==
    LET l1 == CleanEmails(THEATRE_EMAIL_MAPPING[u1])
        l2 == CleanEmails(THEATRE_EMAIL_MAPPING[u2])
    IN  \A e \in Range(l1) \cup Range(l2) : Count(e, l1) = Count(e, l2)

\* the two URLs are configured with the same set of addresses
SameAddressSet(u1, u2) ==
    Range(CleanEmails(THEATRE_EMAIL_MAPPING[u1])) = Range(CleanEmails(THEATRE_EMAIL_MAPPING[u2]))

RecordsKept(old, new) == \A k \in DOMAIN old : k \in DOMAIN new /\ new[k] = old[k]

\* the dispatch loop of the run is over and save_notification_tracking has been called
LoopDone(p) == pc[p] = "done" /\ save_result[p] # "none"

SenderMissing(p) ==
    \/ SENDER_EMAIL[p] \in {"", SenderEmailDefault}
    \/ SENDER_PASSWORD[p] \in {"", SenderPasswordDefault}

InSendEmail(p) == pc[p] \in {"send_email", "dispatch", "mark"}

C2_RecordsPermanent ==
    [][\A p \in Procs : pc[p] = "mark" => RecordsKept(tracking_data[p], tracking_data'[p])]_vars

(***************************************************************************)
(* C3. filter_new_notifications.                                           *)
(***************************************************************************)
ExpectedNew(available, tracking) ==
    SelectSeq(available, LAMBDA t : KeyOfTheatre(t) \notin DOMAIN tracking /\ NonBlankRecipients(t.url))

NewUrls(p) == {new_notifications[p][i].url : i \in 1..Len(new_notifications[p])}

\* C4: two new theatres configured with the same addresses, in any order, are
\* covered by exactly one message of the run, which lists both.
C4_SameRecipientsOneMessage ==
    \A p \in Procs : LoopDone(p) =>
        \A u1 \in NewUrls(p), u2 \in NewUrls(p) :
            SameAddresses(u1, u2) =>
                /\ Cardinality(MessagesListing(p, u1)) = 1
                /\ MessagesListing(p, u1) = MessagesListing(p, u2)

\* one sent message lists two theatres whose recipient strings differ in order
C4_Witness ==
    /\ LoopDone(1)
    /\ \E i \in 1..Len(outbox[1]) :
        /\ outbox[1][i].status = "sent"
        /\ \E u1 \in ListedUrls(outbox[1][i].msg), u2 \in ListedUrls(outbox[1][i].msg) :
            /\ THEATRE_EMAIL_MAPPING[u1] = "a,b"
            /\ THEATRE_EMAIL_MAPPING[u2] = "b, a"

\* C5: two new theatres configured with the same set of addresses, however often
\* an address is repeated, are reported in a single message.
C5_SameAddressSetOneMessage ==
    \A p \in Procs : LoopDone(p) =>
        \A u1 \in NewUrls(p), u2 \in NewUrls(p) :
            SameAddressSet(u1, u2) => MessagesListing(p, u1) = MessagesListing(p, u2)

\* C6: every new theatre is in exactly one group, every message goes to exactly the
\* configured recipients of each theatre it lists, and no recipient set gets two messages.
C6_NoCrossLeak ==
    \A p \in Procs : LoopDone(p) =>
        /\ \A u \in NewUrls(p) : Cardinality(MessagesListing(p, u)) = 1
        /\ \A i \in 1..Len(outbox[p]) : \A u \in ListedUrls(outbox[p][i].msg) :
                Range(outbox[p][i].msg.Bcc) = Range(CleanEmails(THEATRE_EMAIL_MAPPING[u]))
        /\ \A i \in 1..Len(outbox[p]), j \in 1..Len(outbox[p]) :
                ( /\ outbox[p][i].status = "sent"
                  /\ outbox[p][j].status = "sent"
                  /\ Range(outbox[p][i].msg.Bcc) = Range(outbox[p][j].msg.Bcc) ) => i = j

(***************************************************************************)
(* C7, C8, C9. Dispatch failures, marking and saving.                      *)
(***************************************************************************)
\* C7: a failed dispatch does not stop the run: when send_email is over, every new
\* theatre has been listed in a dispatch attempt, the save has been called, and the
\* keys of the theatres of sent messages are in the data saved (and in the file when
\* the write succeeded).
C7_FailureContained ==
    \A p \in Procs : (pc[p] = "done" /\ (outbox[p] # <<>> \/ email_groups[p] # <<>>)) =>
        /\ save_result[p] # "none"
        /\ \A u \in NewUrls(p) : MessagesListing(p, u) # {}
        /\ \A i \in 1..Len(outbox[p]) : outbox[p][i].status = "sent" =>
            \A j \in 1..Len(outbox[p][i].msg.theatres) :
                /\ KeyOfTheatre(outbox[p][i].msg.theatres[j]) \in DOMAIN tracking_data[p]
                /\ save_result[p] = "written" =>
                    /\ tracking_file.state = "valid"
                    /\ KeyOfTheatre(outbox[p][i].msg.theatres[j]) \in DOMAIN tracking_file.data

\* the first dispatch failed, a later one was sent, and its key was written to the file
C7_Witness ==
    /\ pc[1] = "done"
    /\ save_result[1] = "written"
    /\ Len(outbox[1]) = 3
    /\ outbox[1][1].status = "failed"
    /\ outbox[1][2].status = "sent"
    /\ outbox[1][3].status = "failed"
    /\ KeyOfTheatre(outbox[1][2].msg.theatres[1]) \in DOMAIN tracking_file.data

FailedUrls(p) == UNION {ListedUrls(outbox[p][i].msg) : i \in {k \in 1..Len(outbox[p]) : outbox[p][k].status = "failed"}}

RecordedUrls(d) == {d[k].theatre_url : k \in DOMAIN d}

\* C8: a record enters the tracking data only for a theatre listed in a message
\* already sent in this run; once the marking loop of a sent group is over every
\* theatre of the group has its key marked; no record is written for the URL of a
\* theatre whose group's dispatch failed.
C8_MarkFollowsDispatch ==
    /\ [][\A p \in Procs : pc[p] \in {"dispatch", "mark", "done"} =>
            \A k \in DOMAIN tracking_data'[p] :
                (k \notin DOMAIN tracking_data[p] \/ tracking_data'[p][k] # tracking_data[p][k])
                    => tracking_data'[p][k].theatre_url \in SentUrls(p)]_vars
    /\ [](\A p \in Procs : pc[p] \in {"dispatch", "done"} =>
            /\ \A i \in 1..Len(outbox[p]) : outbox[p][i].status = "sent" =>
                   \A j \in 1..Len(outbox[p][i].msg.theatres) :
                       KeyOfTheatre(outbox[p][i].msg.theatres[j]) \in DOMAIN tracking_data[p]
            /\ FailedUrls(p) \cap RecordedUrls(tracking_data[p]) = {})

\* one group was sent and marked, another failed and left no record
C8_Witness ==
    /\ pc[1] = "dispatch"
    /\ Len(outbox[1]) = 2
    /\ outbox[1][1].status = "failed"
    /\ outbox[1][2].status = "sent"
    /\ RecordedUrls(tracking_data[1]) = ListedUrls(outbox[1][2].msg)
    /\ FailedUrls(1) # {}

\* C9: save_notification_tracking writes the file only in a run in which some
\* group's dispatch succeeded.
C9_SaveOnlyAfterSuccess ==
    \A p \in Procs : save_result[p] \in {"written", "truncated", "partial"} =>
        \E i \in 1..Len(outbox[p]) : outbox[p][i].status = "sent"

(***************************************************************************)
(* C10. Missing sender configuration.                                      *)
(***************************************************************************)
\* C10: with the sender address or password unset or the placeholder, a run sends
\* nothing, marks no key and never calls the save, so the mapping held by the
\* tracking file stays what it was; the list check_movie returned is not touched.
C10_SenderMissingSkips ==
    /\ [](\A p \in Procs : SenderMissing(p) =>
            /\ outbox[p] = <<>>
            /\ save_result[p] = "none"
            /\ pc[p] \notin {"dispatch", "mark"}
            /\ tracking_data[p] \in {EmptyDict, tracking_file.data})
    /\ [][\A p \in Procs : (SenderMissing(p) /\ pc[p] # "idle") =>
            /\ tracking_file'.data = tracking_file.data
            /\ tracking_file' = tracking_file \/ (tracking_file.state = "corrupt" /\ tracking_file' = AbsentFile)
            /\ pc'[p] # "idle" => available_theatres'[p] = available_theatres[p]]_vars

\* send_email returned on the sender check: new theatres were there, the file holds records
C10_Witness ==
    /\ pc[1] = "done"
    /\ SenderMissing(1)
    /\ SENDER_EMAIL[1] = "notifier@gmail.com"
    /\ new_notifications[1] # <<>>
    /\ tracking_file.state = "valid"
    /\ tracking_data[1] # EmptyDict
    /\ tracking_data[1] = tracking_file.data

(***************************************************************************)
(* C11, C12, C13, C14. check_movie.                                        *)
(***************************************************************************)
\* whether the check of a URL ends with a result, told from that check alone
OwnVerdict(entry) ==
    /\ entry.status = "checked"
    /\ entry.extracted
    /\ ExtractorTable[entry.content][entry.url].movie_found
    /\ ExtractorTable[entry.content][entry.url].has_showtimes

AppendedEntries == SelectSeq(fetch_log, LAMBDA entry : entry.appended)

\* C11: check_movie examines the configured URLs once each, in list order, to the
\* end of the list; whether a URL gets a result depends on its own check only; a URL
\* whose check raised has no result.
C11_UrlFailureContained ==
    /\ Len(fetch_log) <= Len(THEATRE_URLS)
    /\ \A i \in 1..Len(fetch_log) : fetch_log[i].url = THEATRE_URLS[i]
    /\ cm_pc = "returned" => Len(fetch_log) = Len(THEATRE_URLS)
    /\ found_theatres = [k \in 1..Len(AppendedEntries) |-> TheatreOf(AppendedEntries[k].url)]
    /\ \A i \in 1..Len(fetch_log) :
        /\ fetch_log[i].appended <=> OwnVerdict(fetch_log[i])
        /\ fetch_log[i].status = "raised" => \A k \in 1..Len(found_theatres) : found_theatres[k].url # fetch_log[i].url

\* the first URL failed on opening, the second got a result, the third raised on closing
\* after the movie was found there: check_movie returned the one result
C11_Witness ==
    /\ cm_pc = "returned"
    /\ fetch_log[1].status = "raised"
    /\ ~fetch_log[1].extracted
    /\ fetch_log[2].appended
    /\ fetch_log[3].status = "raised"
    /\ fetch_log[3].report.has_showtimes
    /\ Len(found_theatres) = 1

\* C12: when the check of a URL starts, nothing opened for an earlier URL is still
\* open; what is open belongs to the URL being checked, one resource of each kind.
C12_ResourcesScoped ==
    /\ cm_pc \in {"idle", "loop", "returned"} => held = {}
    /\ \A r \in held : r.of = url_index
    /\ \A r1 \in held, r2 \in held : r1.kind = r2.kind => r1 = r2

\* the third URL's page is open after one check that raised and one that completed
C12_Witness ==
    /\ cm_pc = "opened"
    /\ url_index = 3
    /\ fetch_log[1].status = "raised"
    /\ fetch_log[2].status = "checked"
    /\ held = Resources({"playwright", "browser", "context", "page"}, 3)

\* C13: a URL for which the Extractor reported the movie found without a bookable
\* showtime gets no result.
C13_DatelessNotAvailable ==
    \A i \in 1..Len(fetch_log) :
        (fetch_log[i].extracted /\ fetch_log[i].report.movie_found /\ ~fetch_log[i].report.has_showtimes)
            => /\ ~fetch_log[i].appended
               /\ \A k \in 1..Len(found_theatres) : found_theatres[k].url # fetch_log[i].url

\* the check of a page listing the movie without shows completed, and nothing was appended
C13_Witness ==
    /\ cm_pc = "loop"
    /\ Len(fetch_log) = 1
    /\ fetch_log[1].status = "checked"
    /\ fetch_log[1].content = PageDateless
    /\ fetch_log[1].report.movie_found
    /\ ~fetch_log[1].report.has_showtimes
    /\ found_theatres = <<>>

\* C14: when the Extractor reported the movie not found, the URL gets a result exactly
\* when the markup has the movie name (in any case) and one of the corroborating patterns.
C14_FallbackAppends ==
    \A i \in 1..Len(fetch_log) :
        ( /\ fetch_log[i].status = "checked"
          /\ fetch_log[i].extracted
          /\ ~fetch_log[i].report.movie_found
          /\ fetch_log[i].searched )
            => (fetch_log[i].appended <=> FallbackMatchesPage(fetch_log[i].content))

(***************************************************************************)
(* C15, C16, C17. parse_venue_api_data.                                    *)
(***************************************************************************)
ParseReturned == call.fn = "parse_venue_api_data" /\ ret.done

\* some "Event":[ ... ] is followed, whitespace apart, by ,"Date"
ArrayLocatable(tokens) ==
    \E i \in 1..Len(tokens), j \in 1..Len(tokens) :
        /\ i + 1 < j
        /\ tokens[i] = EventKey
        /\ tokens[i + 1] = "["
        /\ tokens[j] = "]"
        /\ DateFollows(tokens, j)

\* what json.loads makes of the region the pattern picks
EmbeddedData(page) == JsonLoadsEvents(ApiMatch(page.tokens), page.events)

\* C15: parse_venue_api_data never raises, and returns (False, False) when the markup
\* has no 'Event' marker, when no Event array followed by "Date" can be located, or
\* when the located region is not valid JSON.
C15_ParseFailsClosed ==
    ParseReturned =>
        /\ ~ret.value.raised
        /\ ( \/ ~PageContains(call.page_content, <<"E", "v", "e", "n", "t">>)
             \/ ~ArrayLocatable(call.page_content.tokens)
             \/ ~EmbeddedData(call.page_content).ok )
            => (~ret.value.movie_found /\ ~ret.value.has_showtimes)

\* the region located is not valid JSON although the page's Event list has a bookable
\* show of the movie: (False, False) came back
C15_Witness ==
    /\ ParseReturned
    /\ ArrayLocatable(call.page_content.tokens)
    /\ ~EmbeddedData(call.page_content).ok
    /\ \E k \in 1..Len(call.page_content.events) :
        /\ NameIn(MOVIE_NAME, call.page_content.events[k].EventTitle)
        /\ \E c \in 1..Len(call.page_content.events[k].ChildEvents) :
            \E s \in 1..Len(call.page_content.events[k].ChildEvents[c].ShowTimes) :
                MarkupChars(call.page_content.events[k].ChildEvents[c].ShowTimes[s].ShowDateCode) = UrlDate(call.url)
    /\ ret.value = NotFound

\* the ShowTimes of the event whose date code is the target date
DatedShowTimes(event, target_date) ==
    {event.ChildEvents[c].ShowTimes[s] :
        <<c, s>> \in {x \in (1..MaxChildEvents) \X (1..MaxShowTimes) :
                        /\ x[1] <= Len(event.ChildEvents)
                        /\ x[2] <= Len(event.ChildEvents[x[1]].ShowTimes)
                        /\ MarkupChars(event.ChildEvents[x[1]].ShowTimes[x[2]].ShowDateCode) = target_date}}

\* the Events of the embedded data whose title contains the movie name, case-insensitively
TitleMatched(page) ==
    {EmbeddedData(page).events_data[k] : k \in {i \in 1..Len(EmbeddedData(page).events_data) :
        NameIn(MOVIE_NAME, EmbeddedData(page).events_data[i].EventTitle)}}

\* C16: for a URL without "prasads", when an Event of the embedded data has a title
\* containing the movie name (in any case) and a ShowTime with the target date code,
\* the result is (True, True), whatever the attributes and the other Events are.
C16_DatedShowTimeIsBookable ==
    ( /\ ParseReturned
      /\ ~Contains(Chars(call.url), <<"p", "r", "a", "s", "a", "d", "s">>)
      /\ \E event \in TitleMatched(call.page_content) : DatedShowTimes(event, UrlDate(call.url)) # {} )
        => (ret.value.movie_found /\ ret.value.has_showtimes)

\* two title-matched Events: the first without a show on the target date, the second
\* with one whose attributes are null
C16_Witness ==
    /\ ParseReturned
    /\ call.url = UrlAmb0730
    /\ EmbeddedData(call.page_content).ok
    /\ Len(call.page_content.events) = 2
    /\ NameIn(MOVIE_NAME, call.page_content.events[1].EventTitle)
    /\ DatedShowTimes(call.page_content.events[1], UrlDate(call.url)) = {}
    /\ call.page_content.events[1].ChildEvents # <<>>
    /\ NameIn(MOVIE_NAME, call.page_content.events[2].EventTitle)
    /\ DatedShowTimes(call.page_content.events[2], UrlDate(call.url)) = {[ShowDateCode |-> "20250730", Attributes |-> None]}
    /\ ret.value.movie_found
    /\ ret.value.has_showtimes

\* C17: for a URL containing "prasads", with a title-matched Event in the embedded data,
\* the result is (True, True) when a target-date ShowTime of a title-matched Event has
\* attributes exactly "PCX SCREEN", wherever it stands, and (True, False) when none has.
C17_PrasadsNeedsTag ==
    ( /\ ParseReturned
      /\ Contains(Chars(call.url), <<"p", "r", "a", "s", "a", "d", "s">>)
      /\ TitleMatched(call.page_content) # {} )
        => /\ ret.value.movie_found
           /\ ret.value.has_showtimes <=>
                \E event \in TitleMatched(call.page_content) :
                    \E show_time \in DatedShowTimes(event, UrlDate(call.url)) : show_time.Attributes = "PCX SCREEN"

\* a target-date show with the tag in lower case comes first, one with the exact tag second: found
C17_Witness ==
    /\ ParseReturned
    /\ call.url = UrlPrasads0809
    /\ EmbeddedData(call.page_content).ok
    /\ Len(call.page_content.events) = 1
    /\ NameIn(MOVIE_NAME, call.page_content.events[1].EventTitle)
    /\ Len(call.page_content.events[1].ChildEvents) = 1
    /\ call.page_content.events[1].ChildEvents[1].ShowTimes =
         <<[ShowDateCode |-> "20250809", Attributes |-> "pcx screen"], [ShowDateCode |-> "20250809", Attributes |-> "PCX SCREEN"]>>
    /\ ret.value.movie_found
    /\ ret.value.has_showtimes

(***************************************************************************)
(* C18. extract_theatre_info on malformed URLs.                            *)
(***************************************************************************)
Digits == {"0", "1", "2", "3", "4", "5", "6", "7", "8", "9"}

\* an 8-digit date code
IsDateCode(segment) == Len(segment) = 8 /\ \A i \in 1..8 : segment[i] \in Digits

\* C18: for a URL of fewer than five parts, or whose last segment is not an 8-digit
\* date code, extract_theatre_info returns ("Unknown Theatre", "Unknown Date"); for
\* any other URL it returns the alias or title-cased name and the date as DD/MM/YYYY.
C18_MalformedUrlGetsSentinel ==
    (call.fn = "extract_theatre_info" /\ ret.done) =>
        LET parts == Split(JoinSlash(call.url), "/")
            last == parts[Len(parts)]
        IN  IF Len(parts) < 5 \/ ~IsDateCode(last) THEN ret.value = UnknownInfo
            ELSE /\ ret.value.theatre = TheatreAlias(parts[5])
                 /\ ret.value.date = <<last[7], last[8], "/", last[5], last[6], "/", last[1], last[2], last[3], last[4]>>

(***************************************************************************)
(* C19. load_notification_tracking on every state of the store.            *)
(***************************************************************************)
LoadReturned == call.fn = "load_notification_tracking" /\ ret.done

\* the call left the file, and the number of backups, as it found them
StoreUntouched == tracking_file = call.file /\ backups = call.backups

\* the call moved the file aside under a backup name
StoreQuarantined == tracking_file = AbsentFile /\ backups = call.backups + 1

\* the parts of the claim about every store but one holding unparsable JSON
LoadOfOtherStores ==
    /\ ~ret.raised
    /\ call.file.state \in {"absent", "empty", "blank"} => ret.value = EmptyDict /\ StoreUntouched
    /\ call.file.state = "valid" => ret.value = call.file.data /\ StoreUntouched

\* C19 (amended): load_notification_tracking never raises; a missing, zero-length or
\* whitespace-only store yields the empty mapping and no backup; a store holding
\* unparsable JSON yields the empty mapping and is renamed to a backup when the rename
\* succeeds, and is left in place with no backup when the rename fails; a store that
\* cannot be read yields the empty mapping and is left in place; a valid JSON object
\* is returned unchanged and the file is left in place.
C19_LoadNeverBlocks ==
    LoadReturned =>
        /\ LoadOfOtherStores
        /\ call.file.state = "corrupt" =>
              /\ ret.value = EmptyDict
              /\ IF ret.rename_ok THEN StoreQuarantined ELSE StoreUntouched
        /\ call.file.state = "unreadable" => ret.value = EmptyDict /\ StoreUntouched

\* an unparsable store, next to a backup already there, whose rename failed
C19_Witness ==
    /\ LoadReturned
    /\ call.file.state = "corrupt"
    /\ call.backups = 1
    /\ ~ret.rename_ok
    /\ tracking_file = CorruptFile

\* C19 as stated: as above, but a store holding unparsable JSON is always renamed to
\* a backup name.
C19_UnparsableAlwaysRenamed ==
    LoadReturned =>
        /\ LoadOfOtherStores
        /\ call.file.state = "corrupt" => ret.value = EmptyDict /\ StoreQuarantined

(***************************************************************************)
(* C20. Recipients are not disclosed to each other.                        *)
(***************************************************************************)
\* the messages either script handed to smtp.send_message, sent or refused
BuiltMessages == UNION {{outbox[p][i].msg : i \in DOMAIN outbox[p]} : p \in Procs}

\* C20: every message built by send_email, in either script, carries its recipients
\* in the Bcc list only: the To header holds no address (neither script sets Cc).
C20_RecipientsOnlyInBcc ==
    \A msg \in BuiltMessages : msg.To = <<>>

(***************************************************************************)
(* C22-C24. The two passes of parse_venue_api_data.                        *)
(***************************************************************************)
\* the Events json.loads returned for the call
EventsOfCall == EmbeddedData(call.page_content).events_data

\* the event has a target-date ShowTime that counts for the URL in the pass over titles
BookableEvent(event, target_date, url) ==
    \E show_time \in DatedShowTimes(event, target_date) : IsPrasadsUrl(url) => show_time.Attributes = "PCX SCREEN"

\* positions of the Events whose title contains the movie name
TitleMatchedAt(events_data) == {i \in 1..Len(events_data) : NameIn(MOVIE_NAME, events_data[i].EventTitle)}

\* the first of them
FirstTitleMatch(events_data) == CHOOSE i \in TitleMatchedAt(events_data) : \A j \in TitleMatchedAt(events_data) : i <= j

\* the event has a ChildEvent whose name contains the movie name and which has a
\* ShowTime with the target date code
NameMatchedDated(event, target_date) ==
    \E c \in 1..Len(event.ChildEvents) :
        /\ NameIn(MOVIE_NAME, event.ChildEvents[c].EventName)
        /\ \E s \in 1..Len(event.ChildEvents[c].ShowTimes) : MarkupChars(event.ChildEvents[c].ShowTimes[s].ShowDateCode) = target_date

\* the data was loaded and some title matched / no title matched
TitlePassDecides == ParseReturned /\ EmbeddedData(call.page_content).ok /\ TitleMatchedAt(EventsOfCall) # {}

NamePassDecides == ParseReturned /\ EmbeddedData(call.page_content).ok /\ TitleMatchedAt(EventsOfCall) = {}

\* C22 (amended): when some Event title contains the movie name the movie is found, and
\* a bookable showtime is reported exactly when some title-matching Event, the first or
\* a later one, has a ShowTime that counts; the Events after a title match without
\* such a ShowTime are still examined.
C22_AnyTitleMatchDecides ==
    TitlePassDecides =>
        /\ ret.value.movie_found
        /\ ret.value.has_showtimes <=>
             \E i \in TitleMatchedAt(EventsOfCall) : BookableEvent(EventsOfCall[i], UrlDate(call.url), call.url)

\* two title-matching Events, the first with a target-date show that does not count,
\* the second with one that does: (True, True)
C22_Witness ==
    /\ TitlePassDecides
    /\ TitleMatchedAt(EventsOfCall) = {1, 2}
    /\ DatedShowTimes(EventsOfCall[1], UrlDate(call.url)) # {}
    /\ ~BookableEvent(EventsOfCall[1], UrlDate(call.url), call.url)
    /\ BookableEvent(EventsOfCall[2], UrlDate(call.url), call.url)
    /\ ret.value.movie_found
    /\ ret.value.has_showtimes

\* C22 as stated: the first title-matching Event alone decides whether a bookable
\* showtime is reported.
C22_FirstTitleMatchDecides ==
    TitlePassDecides =>
        /\ ret.value.movie_found
        /\ ret.value.has_showtimes <=>
             BookableEvent(EventsOfCall[FirstTitleMatch(EventsOfCall)], UrlDate(call.url), call.url)

\* C23: when no Event title matches and a ChildEvent of any Event has a name containing
\* the movie name and a ShowTime with the target date code, the result is (True, True),
\* whatever the Events before it hold.
C23_NamePassCoversEveryEvent ==
    ( /\ NamePassDecides
      /\ \E i \in 1..Len(EventsOfCall) : NameMatchedDated(EventsOfCall[i], UrlDate(call.url)) )
        => (ret.value.movie_found /\ ret.value.has_showtimes)

\* C24: when some title matches and no title-matching Event has a ShowTime that counts,
\* the result is (True, False) whatever the ChildEvent names are; when no title matches,
\* on a "prasads" URL a name-matched ChildEvent's target-date ShowTime gives (True, True)
\* whatever its attributes.
C24_NamePassOnlyWithoutTitleMatch ==
    /\ ( /\ TitlePassDecides
         /\ \A i \in TitleMatchedAt(EventsOfCall) : ~BookableEvent(EventsOfCall[i], UrlDate(call.url), call.url) )
           => (ret.value.movie_found /\ ~ret.value.has_showtimes)
    /\ ( /\ NamePassDecides
         /\ IsPrasadsUrl(call.url)
         /\ \E i \in 1..Len(EventsOfCall) : NameMatchedDated(EventsOfCall[i], UrlDate(call.url)) )
           => (ret.value.movie_found /\ ret.value.has_showtimes)

(***************************************************************************)
(* C21. Overlapping runs on the one tracking file.                         *)
(***************************************************************************)
\* C21: with overlapping runs nothing ties a run to what another run stored after its
\* load: the theatres and groups a run dispatches are those its own load and filter
\* produced, every one of these groups gets its message whatever reached the file in
\* the meantime, and a successful save leaves on disk exactly the saving run's own
\* mapping, without the records another run added since.
C21_OverlapUnsafe ==
    [][\A p \in Procs :
        /\ pc[p] \in {"dispatch", "mark"} =>
              (new_notifications'[p] = new_notifications[p] /\ email_groups'[p] = email_groups[p])
        /\ (pc[p] = "dispatch" /\ pc'[p] = "done") =>
              /\ Len(outbox'[p]) = Len(email_groups[p])
              /\ \A i \in 1..Len(email_groups[p]) : outbox'[p][i].msg.theatres = email_groups[p][i].theatres
              /\ save_result'[p] = "written" => tracking_file' = JsonDump(tracking_data[p])]_vars

\* both runs sent a message for the same theatre page (duplicate alert), both wrote the
\* store, and the store lacks a record the first run wrote (lost update)
C21_Witness ==
    /\ LoopDone(1)
    /\ LoopDone(2)
    /\ save_result[1] = "written"
    /\ save_result[2] = "written"
    /\ SentUrls(1) \cap SentUrls(2) # {}
    /\ tracking_file.state = "valid"
    /\ \E k \in DOMAIN tracking_data[1] : k \notin DOMAIN tracking_file.data

(***************************************************************************)
(* C25, C26. What the filter drops and what it lets through again.         *)
(***************************************************************************)
\* the theatres of the run's argument that the filter, in this step, does not return
DroppedNow(p) == {available_theatres[p][i] : i \in {k \in 1..Len(available_theatres[p]) :
                    available_theatres[p][k] \notin Range(new_notifications'[p])}}

\* the theatres the groups built in this step hold
GroupedNow(p) == UNION {Range(email_groups'[p][g].theatres) : g \in 1..Len(email_groups'[p])}

\* C25: over non-overlapping runs, filter_new_notifications drops an available theatre
\* whose URL has recipients only if a message listing that same URL was sent before.
C25_SuppressionFollowsNotification ==
    [][\A p \in Procs : pc[p] = "send_email" =>
        \A theatre \in DroppedNow(p) :
            NonBlankRecipients(theatre.url) => theatre.url \in history.dispatched]_vars

\* C26: a theatre whose dispatch failed, or was sent without the store being written
\* afterwards, is returned as new by the filter of the next run that finds it available
\* and, the sender being configured, is put in a group to dispatch; and after a dispatch
\* and a written save the theatre's key is in the store.
C26_FailedOrUnsavedIsRetried ==
    [][\A p \in Procs :
        /\ pc[p] = "send_email" =>
              \A i \in 1..Len(available_theatres[p]) :
                  available_theatres[p][i].url \in history.pending =>
                      /\ available_theatres[p][i] \in Range(new_notifications'[p])
                      /\ SenderConfigured(SENDER_EMAIL[p], SENDER_PASSWORD[p]) => available_theatres[p][i] \in GroupedNow(p)
        /\ (pc[p] = "dispatch" /\ pc'[p] = "done" /\ save_result'[p] = "written") =>
              \A url \in SentUrls(p) : create_notification_key(url, <<>>) \in DOMAIN tracking_file'.data]_vars

====
